---- MODULE Spec2Model ----
(***************************************************************************)
(* The event pipeline of Kiddo: the in-memory event queue                  *)
(* (src/src/queue/queue.py), the orchestrator's ingestion and processing   *)
(* loops (src/src/orchestrator.py) and the Gmail connector's idempotency   *)
(* marking (src/src/ingestion/adapters.py).                                *)
(*                                                                         *)
(* The specifications:                                                     *)
(*   SpecQueue    an arbitrary client calls publish / consume / ack / nack *)
(*                (SpecQueueLive: and keeps pulling from consume);         *)
(*   Spec         the orchestrator drives the queue: one ingestion loop    *)
(*                per connector and one processing loop, interleaved at    *)
(*                every await of an external collaborator;                 *)
(*   SpecPoison   the orchestrator with events whose extraction raises     *)
(*                every time, under the event loop's scheduling;           *)
(*   SpecGmail    a client calls the methods of the GmailConnectors;       *)
(*   SpecExtract  DataExtractor.extract and the Google calendar sink       *)
(*                applied to the dicts an LLM can return.                  *)
(***************************************************************************)
EXTENDS Integers, Sequences, FiniteSets, TLC

(***************************************************************************)
(* Bounds of the model.                                                    *)
(***************************************************************************)
\* publish calls a client of the queue makes in one behaviour
MaxPublish == 2
\* events the ingestion loops publish in one behaviour
MaxIngest == 2
\* nack(requeue=True) calls that re-append an event in one behaviour
MaxRequeue == 1
\* exceptions the collaborators raise in one behaviour (fetch_events,
\* process_event, mark_as_processed)
MaxFaults == 1
\* the latest datetime an LLM result names, in hours
MaxTime == 2

(***************************************************************************)
(* Values.                                                                 *)
(***************************************************************************)
\* Python's None (RawEvent.event_id is Optional[str])
None == "None"
\* what the consume generator gives when it ends (StopAsyncIteration)
StopAsyncIteration == [oid |-> 0, source_id |-> "", event_id |-> "", raw_payload |-> <<>>]
\* the event ids a client of the queue publishes under
ClientIds == {"a1", "b1"}
\* the payload of the source item with the given id
PayloadOf(id) == <<"body", id>>
\* the ids a client passes to ack / nack: the published ones and one that is
\* never published (the empty string, which is also what `event_id or ""` gives)
CallIds == ClientIds \cup {""}

\* the configured connectors, in the order of SystemOrchestrator.connectors
Connectors == {"A", "B"}
\* the messages each connector's mailbox lists, in list order
Messages(c) == IF c = "A" THEN <<"a1", "a2">> ELSE <<"b1">>

\* SystemOrchestrator.calendar_providers, in the order main() inserts them
Providers == <<"google", "ical">>

\* the connector a message belongs to (RawEvent.source_id)
SourceOf(id) == CHOOSE c \in Connectors : \E i \in DOMAIN Messages(c) : Messages(c)[i] = id

\* RawEvent: `oid` is the identity of the Python object (never read by the code)
RawEvent(oid, source_id, event_id, raw_payload) ==
    [oid |-> oid, source_id |-> source_id, event_id |-> event_id, raw_payload |-> raw_payload]

\* an Optional value: Nothing is Python's None, Some(x) is the value x
Nothing == <<>>

Some(x) == <<x>>

\* the record of a GmailConnector call before any call is made
NoCall ==
    [name |-> "init", on |-> "", arg |-> "", connected |-> FALSE, api_ok |-> TRUE,
     result |-> FALSE, raised |-> FALSE, events |-> <<>>, failed |-> {}]

\* one entry of the LLM's dict: the key is absent, its value is None ("none"),
\* or it has the value v, of the kind given
Entry(kind, v) == [kind |-> kind, v |-> v]

\* the dict of the LLM service when no extraction is under way
NoResult ==
    [title |-> Entry("absent", ""), start_time |-> Entry("absent", 0),
     end_time |-> Entry("absent", 0), alert_before_minutes |-> Entry("absent", 0)]

\* StructuredEvent, the fields the extraction and the calendar sink read
StructuredEvent(title, start_time, end_time, alert_before_minutes) ==
    [title |-> title, start_time |-> start_time, end_time |-> end_time,
     alert_before_minutes |-> alert_before_minutes]

\* no StructuredEvent (extract has not returned one)
NoEvent == StructuredEvent(Nothing, Nothing, Nothing, Nothing)

\* no event body (create_event has not run)
NoBody == [start |-> Nothing, end |-> Nothing, reminders |-> <<>>]

VARIABLES
    queue,        \* InMemoryEventQueue.queue: the backlog, a list of RawEvent
    processing,   \* InMemoryEventQueue.processing: dict event_id -> RawEvent (in flight)
    yielded,      \* the value the last pull of consume() gave (or StopAsyncIteration)
    ret,          \* the value the last publish / ack / nack returned
    op,           \* history: the last queue operation called, its arguments, and whether
                  \* it found what it addressed (the id in flight, the backlog non-empty)
    published,    \* history: the events passed to publish, in order
    delivered,    \* history: the events consume() yielded, in order
    acked,        \* history: oids removed from in-flight by ack
    dropped,      \* history: oids removed from in-flight by nack(requeue=False)
    requeued,     \* history: the nack(requeue=True) calls that re-appended an event: its
                  \* oid, the deliveries made before the call, the oids then in the backlog
    running,      \* SystemOrchestrator.running
    service,      \* per connector: GmailConnector.service is set (connected)
    labelled,     \* per connector: the messages carrying the processed label
    ipc,          \* per connector: where its _ingestion_loop stands
    cursor,       \* per connector: messages of the current fetch already looked at
    ppc,          \* where the _processing_loop stands
    faults,       \* history: the exceptions the collaborators raised: <<call, connector or oid>>
    structured,   \* history: oids process_event returned a StructuredEvent for, in order
    marks,        \* history: the mark_as_processed calls: the event's oid and the connector
    ackCalls,     \* history: the processing loop's ack calls: the event's oid and the id passed
    prov,         \* _integrate_calendar: the index of the provider being called (0: none)
    steps,        \* history: the calls the processing loop made for the event it holds, in order
    poison,       \* the event ids for which process_event raises every time
    noid,         \* the messages whose RawEvent is built without an event_id (None,
                  \* the default of the dataclass)
    foreign,      \* the messages whose RawEvent carries a source_id no connector is
                  \* registered under
    gmail,        \* history: the last call a client made on a GmailConnector, what it
                  \* found and what it gave
    llm_result,   \* DataExtractor.extract: the dict the LLM service returned
    structured_event, \* the StructuredEvent extract() built
    event_body,   \* GoogleCalendarProvider.create_event: the event body it built
    xpc           \* where the extraction of llm_result stands

hvars == <<op, published, delivered, acked, dropped, requeued>>

qvars == <<queue, processing, yielded, ret>>

ovars == <<running, service, labelled, ipc, cursor, ppc, faults, structured, marks, ackCalls,
           prov, steps, poison, noid, foreign>>

gvars == <<gmail>>

xvars == <<llm_result, structured_event, event_body, xpc>>

vars == <<qvars, hvars, ovars, gvars, xvars>>

(***************************************************************************)
(* Python dict helpers.                                                    *)
(***************************************************************************)
EmptyDict == [k \in {} |-> StopAsyncIteration]

DictSet(d, k, v) == [x \in (DOMAIN d) \cup {k} |-> IF x = k THEN v ELSE d[x]]

DictDel(d, k) == [x \in (DOMAIN d) \ {k} |-> d[x]]

(***************************************************************************)
(* InMemoryEventQueue                                                      *)
(***************************************************************************)
\* a publish that is not atomic with consume: it appends to a copy of the
\* backlog read before the pull of the event now in flight, so the pop is lost
publish_loses_the_pop(event) ==
    /\ queue' = IF yielded # StopAsyncIteration /\ yielded.event_id \in DOMAIN processing
                THEN Append(<<yielded>> \o queue, event)
                ELSE Append(queue, event)
    /\ ret' = TRUE
    /\ UNCHANGED <<processing, yielded>>

\* a publish that deduplicates: an event whose id is already in the backlog or
\* in flight is not appended
publish_dedups(event) ==
    /\ queue' = IF \/ \E i \in DOMAIN queue : queue[i].event_id = event.event_id
                   \/ event.event_id \in DOMAIN processing
                THEN queue
                ELSE Append(queue, event)
    /\ ret' = TRUE
    /\ UNCHANGED <<processing, yielded>>

\* publish(event): self.queue.append(event); return True
publish(event) ==
    /\ queue' = Append(queue, event)
    /\ ret' = TRUE
    /\ UNCHANGED <<processing, yielded>>

\* a consume that takes the newest event: self.queue.pop() for self.queue.pop(0)
consume_pops_last ==
    IF queue # <<>>
    THEN /\ queue' = SubSeq(queue, 1, Len(queue) - 1)
         /\ processing' = DictSet(processing, queue[Len(queue)].event_id, queue[Len(queue)])
         /\ yielded' = queue[Len(queue)]
         /\ UNCHANGED ret
    ELSE /\ yielded' = StopAsyncIteration
         /\ UNCHANGED <<queue, processing, ret>>

\* a consume that reads the head without removing it: self.queue[0] for self.queue.pop(0)
consume_keeps_head ==
    IF queue # <<>>
    THEN /\ processing' = DictSet(processing, Head(queue).event_id, Head(queue))
         /\ yielded' = Head(queue)
         /\ UNCHANGED <<queue, ret>>
    ELSE /\ yielded' = StopAsyncIteration
         /\ UNCHANGED <<queue, processing, ret>>

\* a consume that cannot be restarted: when a sequence has ended after its
\* deliveries, every later pull finds nothing
consume_ends_for_good ==
    IF queue # <<>> /\ ~(yielded = StopAsyncIteration /\ delivered # <<>>)
    THEN /\ queue' = Tail(queue)
         /\ processing' = DictSet(processing, Head(queue).event_id, Head(queue))
         /\ yielded' = Head(queue)
         /\ UNCHANGED ret
    ELSE /\ yielded' = StopAsyncIteration
         /\ UNCHANGED <<queue, processing, ret>>

\* an eager consume: the pull takes the whole backlog and yields its head
consume_takes_all ==
    IF queue # <<>>
    THEN /\ queue' = <<>>
         /\ processing' = DictSet(processing, Head(queue).event_id, Head(queue))
         /\ yielded' = Head(queue)
         /\ UNCHANGED ret
    ELSE /\ yielded' = StopAsyncIteration
         /\ UNCHANGED <<queue, processing, ret>>

\* a consume that does not overwrite an in-flight entry: the event pulled
\* under an id already in flight is yielded without being recorded
consume_keeps_earlier ==
    IF queue # <<>>
    THEN /\ queue' = Tail(queue)
         /\ processing' = IF Head(queue).event_id \in DOMAIN processing
                          THEN processing
                          ELSE DictSet(processing, Head(queue).event_id, Head(queue))
         /\ yielded' = Head(queue)
         /\ UNCHANGED ret
    ELSE /\ yielded' = StopAsyncIteration
         /\ UNCHANGED <<queue, processing, ret>>

\* one pull of the consume() generator: pop(0) into processing and yield, or
\* break (the generator ends) when the backlog is empty
consume ==
    IF queue # <<>>
    THEN /\ queue' = Tail(queue)
         /\ processing' = DictSet(processing, Head(queue).event_id, Head(queue))
         /\ yielded' = Head(queue)
         /\ UNCHANGED ret
    ELSE /\ yielded' = StopAsyncIteration
         /\ UNCHANGED <<queue, processing, ret>>

\* an ack that also removes the events with the id from the backlog
ack_purges_backlog(event_id) ==
    /\ processing' = IF event_id \in DOMAIN processing
                     THEN DictDel(processing, event_id)
                     ELSE processing
    /\ queue' = LET Other(e) == e.event_id # event_id IN SelectSeq(queue, Other)
    /\ ret' = TRUE
    /\ UNCHANGED yielded

\* an ack that leaves the event in flight (the del is missing)
ack_keeps_in_flight(event_id) ==
    /\ ret' = TRUE
    /\ UNCHANGED <<queue, processing, yielded>>

\* an ack without the membership test: del self.processing[event_id] raises
\* KeyError for an id that is not in flight, and no success is returned
ack_unguarded(event_id) ==
    /\ processing' = DictDel(processing, event_id)
    /\ ret' = (event_id \in DOMAIN processing)
    /\ UNCHANGED <<queue, yielded>>

\* ack(event_id): delete from processing if present; return True
ack(event_id) ==
    /\ processing' = IF event_id \in DOMAIN processing
                     THEN DictDel(processing, event_id)
                     ELSE processing
    /\ ret' = TRUE
    /\ UNCHANGED <<queue, yielded>>

\* a nack that never re-appends (the requeue branch is missing)
nack_never_requeues(event_id, requeue) ==
    /\ processing' = DictDel(processing, event_id)
    /\ ret' = TRUE
    /\ UNCHANGED <<queue, yielded>>

\* a nack that re-appends whatever requeue says
nack_always_requeues(event_id, requeue) ==
    /\ IF event_id \in DOMAIN processing
       THEN /\ processing' = DictDel(processing, event_id)
            /\ queue' = Append(queue, processing[event_id])
       ELSE UNCHANGED <<queue, processing>>
    /\ ret' = TRUE
    /\ UNCHANGED yielded

\* a nack that re-queues at the head: self.queue.insert(0, event)
nack_requeues_at_head(event_id, requeue) ==
    /\ IF event_id \in DOMAIN processing
       THEN /\ processing' = DictDel(processing, event_id)
            /\ queue' = IF requeue THEN <<processing[event_id]>> \o queue ELSE queue
       ELSE UNCHANGED <<queue, processing>>
    /\ ret' = TRUE
    /\ UNCHANGED yielded

\* nack(event_id, requeue): pop from processing if present and, if requeue,
\* append the popped event to the backlog; return True
nack(event_id, requeue) ==
    /\ IF event_id \in DOMAIN processing
       THEN /\ processing' = DictDel(processing, event_id)
            /\ queue' = IF requeue THEN Append(queue, processing[event_id]) ELSE queue
       ELSE UNCHANGED <<queue, processing>>
    /\ ret' = TRUE
    /\ UNCHANGED yielded

(***************************************************************************)
(* The queue operations with their history.  The deliveries and requeues   *)
(* of an event whose extraction raises every time are without end and are  *)
(* not recorded.  op.fresh says that the pull is the first one of a        *)
(* consume() sequence: no pull went before it, or the pull before it found *)
(* the backlog empty and ended its sequence.                               *)
(***************************************************************************)
Recorded(event) == event.event_id \notin poison

Publish(event) ==
    /\ publish(event)
    /\ op' = [name |-> "publish", event_id |-> event.event_id, requeue |-> FALSE,
               hit |-> FALSE, fresh |-> FALSE]
    /\ published' = Append(published, event)
    /\ UNCHANGED <<delivered, acked, dropped, requeued>>

Consume ==
    /\ consume
    /\ op' = [name |-> "consume", event_id |-> "", requeue |-> FALSE, hit |-> queue # <<>>,
               fresh |-> yielded = StopAsyncIteration]
    /\ delivered' = IF yielded' # StopAsyncIteration /\ Recorded(yielded')
                    THEN Append(delivered, yielded')
                    ELSE delivered
    /\ UNCHANGED <<published, acked, dropped, requeued>>

Ack(event_id) ==
    /\ ack(event_id)
    /\ op' = [name |-> "ack", event_id |-> event_id, requeue |-> FALSE,
               hit |-> event_id \in DOMAIN processing, fresh |-> FALSE]
    /\ acked' = IF event_id \in DOMAIN processing
                THEN acked \cup {processing[event_id].oid} ELSE acked
    /\ UNCHANGED <<published, delivered, dropped, requeued>>

Nack(event_id, requeue) ==
    /\ (event_id \in DOMAIN processing /\ requeue /\ Recorded(processing[event_id])) =>
           Len(requeued) < MaxRequeue
    /\ nack(event_id, requeue)
    /\ op' = [name |-> "nack", event_id |-> event_id, requeue |-> requeue,
               hit |-> event_id \in DOMAIN processing, fresh |-> FALSE]
    /\ dropped' = IF event_id \in DOMAIN processing /\ ~requeue
                  THEN dropped \cup {processing[event_id].oid} ELSE dropped
    /\ requeued' = IF event_id \in DOMAIN processing /\ requeue
                                                    /\ Recorded(processing[event_id])
                   THEN Append(requeued, [oid |-> processing[event_id].oid,
                                          at |-> Len(delivered),
                                          ahead |-> {queue[i].oid : i \in DOMAIN queue}])
                   ELSE requeued
    /\ UNCHANGED <<published, delivered, acked>>

(***************************************************************************)
(* Initial state: InMemoryEventQueue.__init__, SystemOrchestrator.__init__ *)
(***************************************************************************)
\* the ids for which process_event raises every time, where there are any
PoisonIds == {"b1"}

Constructed ==
    /\ queue = <<>>
    /\ processing = EmptyDict
    /\ yielded = StopAsyncIteration
    /\ ret = TRUE
    /\ op = [name |-> "init", event_id |-> "", requeue |-> FALSE, hit |-> FALSE,
             fresh |-> FALSE]
    /\ published = <<>>
    /\ delivered = <<>>
    /\ acked = {}
    /\ dropped = {}
    /\ requeued = <<>>
    /\ running = FALSE
    /\ service = [c \in Connectors |-> FALSE]
    /\ labelled = [c \in Connectors |-> {}]
    /\ ipc = [c \in Connectors |-> "new"]
    /\ cursor = [c \in Connectors |-> 0]
    /\ ppc = "new"
    /\ faults = <<>>
    /\ structured = <<>>
    /\ marks = <<>>
    /\ ackCalls = <<>>
    /\ prov = 0
    /\ steps = <<>>
    /\ gmail = NoCall

\* no LLM result is at hand
NoExtraction ==
    /\ llm_result = NoResult
    /\ structured_event = NoEvent
    /\ event_body = NoBody
    /\ xpc = "idle"

\* the connectors are GmailConnectors: every RawEvent carries an event_id and
\* the source_id of the connector that built it
GmailEvents == noid = {} /\ foreign = {}

\* every event can be extracted (a raise of process_event is transient)
Init == Constructed /\ poison = {} /\ NoExtraction /\ GmailEvents

\* the events with an id in PoisonIds cannot be extracted
InitPoison == Constructed /\ poison = PoisonIds /\ NoExtraction /\ GmailEvents

(***************************************************************************)
(* SpecQueue: a client of the queue.                                       *)
(***************************************************************************)
ClientPublish ==
    /\ Len(published) < MaxPublish
    /\ \E id \in ClientIds :
           Publish(RawEvent(Len(published) + 1, SourceOf(id), id, PayloadOf(id)))
    /\ UNCHANGED <<ovars, gvars, xvars>>

ClientConsume == Consume /\ UNCHANGED <<ovars, gvars, xvars>>

ClientAck == (\E id \in CallIds : Ack(id)) /\ UNCHANGED <<ovars, gvars, xvars>>

ClientNack ==
    /\ \E id \in CallIds, requeue \in BOOLEAN : Nack(id, requeue)
    /\ UNCHANGED <<ovars, gvars, xvars>>

NextQueue == ClientPublish \/ ClientConsume \/ ClientAck \/ ClientNack

SpecQueue == Init /\ [][NextQueue]_vars

\* the client keeps pulling from consume() while the backlog holds an event
SpecQueueLive == SpecQueue /\ WF_vars(ClientConsume)

(***************************************************************************)
(* GmailConnector                                                          *)
(***************************************************************************)
\* _message_to_event: a fresh RawEvent for message m of connector c.  The id
\* is written without the code's "gmail_" prefix.
_message_to_event(c, m) == RawEvent(Len(published) + 1, c, m, PayloadOf(m))

\* a source_id that is not a key of connector_map
OtherSource == "X"

\* the RawEvent a SourceConnector yields from fetch_events.  The interface
\* leaves the fields to the connector: event_id is Optional with default None
\* and source_id is any string.  A GmailConnector yields _message_to_event.
yield_event(c, m) ==
    [_message_to_event(c, m) EXCEPT !.event_id = IF m \in noid THEN None ELSE @,
                                    !.source_id = IF m \in foreign THEN OtherSource ELSE @]

\* an is_processed that does not find the label
is_processed_never(c, m) == FALSE

\* is_processed: False when not connected, else whether the message carries
\* the processed label
is_processed(c, m) == service[c] /\ m \in labelled[c]

\* the position of the next listed message fetch_events does not skip, or 0
\* when the sequence is exhausted
NextUnprocessed(c) ==
    LET rest == {i \in (cursor[c] + 1)..Len(Messages(c)) : ~is_processed(c, Messages(c)[i])}
    IN  IF rest = {} THEN 0 ELSE CHOOSE i \in rest : \A j \in rest : i <= j

\* mark_as_processed: False when the event has no id or the connector is not
\* connected, else the label is applied and the result is True
mark_as_processed(c, event) ==
    IF event.event_id = None \/ event.event_id = "" \/ ~service[c]
    THEN UNCHANGED labelled
    ELSE labelled' = [labelled EXCEPT ![c] = @ \cup {event.event_id}]

\* fetch_events, the whole sequence of one call on a connected connector: the
\* listed messages in list order, without those is_processed finds processed.
\* For the ids in `failed` the API call inside is_processed raises, which
\* is_processed answers with False ("if we can't check, assume not processed").
fetch_events(c, failed) ==
    LET Yields(m) == ~(m \notin failed /\ is_processed(c, m))
    IN  SelectSeq(Messages(c), Yields)

\* the ids of the messages a connector lists
MessageIds(c) == {Messages(c)[i] : i \in DOMAIN Messages(c)}

(***************************************************************************)
(* SpecGmail: a client of the GmailConnectors.  Each call is one step; the *)
(* record `gmail` keeps the call, whether the connector was connected when *)
(* it was made, whether the Gmail API answered (api_ok), and the outcome.  *)
(***************************************************************************)
Call(name, on, arg, api_ok, result, raised, events, failed) ==
    [name |-> name, on |-> on, arg |-> arg, connected |-> service[on], api_ok |-> api_ok,
     result |-> result, raised |-> raised, events |-> events, failed |-> failed]

\* a connector call leaves the queue, the orchestrator and the extractor alone
GmailFrame ==
    UNCHANGED <<qvars, hvars, running, ipc, cursor, ppc, faults, structured, marks,
                ackCalls, prov, steps, poison, noid, foreign, xvars>>

\* whether the API is reached at all: only a connected connector calls it
ApiOutcomes(c) == IF service[c] THEN BOOLEAN ELSE {TRUE}

\* connect(): the credentials load and build() returns the service
GmailConnect(c) ==
    /\ service' = [service EXCEPT ![c] = TRUE]
    /\ gmail' = Call("connect", c, "", TRUE, FALSE, FALSE, <<>>, {})
    /\ UNCHANGED labelled
    /\ GmailFrame

\* connect() raises (ConnectionError, ImportError) before self.service is
\* assigned: the handle stays as it was
GmailConnectRaise(c) ==
    /\ gmail' = Call("connect", c, "", FALSE, FALSE, TRUE, <<>>, {})
    /\ UNCHANGED <<service, labelled>>
    /\ GmailFrame

\* a disconnect() that closes the service and keeps the handle
GmailDisconnect_keeps_service(c) ==
    /\ gmail' = Call("disconnect", c, "", TRUE, FALSE, FALSE, <<>>, {})
    /\ UNCHANGED <<service, labelled>>
    /\ GmailFrame

\* disconnect(): close the service if there is one, self.service = None
GmailDisconnect(c) ==
    /\ service' = [service EXCEPT ![c] = FALSE]
    /\ gmail' = Call("disconnect", c, "", TRUE, FALSE, FALSE, <<>>, {})
    /\ UNCHANGED labelled
    /\ GmailFrame

\* fetch_events(), iterated to its end: RuntimeError when not connected, else
\* the events of the messages not found processed
GmailFetch(c) ==
    /\ \E failed \in SUBSET MessageIds(c) :
           /\ service[c] \/ failed = {}
           /\ gmail' = Call("fetch_events", c, "", failed = {}, FALSE, ~service[c],
                            IF service[c] THEN fetch_events(c, failed) ELSE <<>>, failed)
    /\ UNCHANGED <<service, labelled>>
    /\ GmailFrame

\* fetch_events(): the list call or a get call of the API raises, after some
\* of the events were yielded: RuntimeError
GmailFetchRaise(c) ==
    /\ service[c]
    /\ \E n \in 0..Len(fetch_events(c, {})) :
           gmail' = Call("fetch_events", c, "", FALSE, FALSE, TRUE,
                         SubSeq(fetch_events(c, {}), 1, n), {})
    /\ UNCHANGED <<service, labelled>>
    /\ GmailFrame

\* mark_as_processed(event): False for an event without id, when not
\* connected, and when the API raises; else the label is applied: True
GmailMark(c) ==
    \E m \in MessageIds(c) \cup {""}, api_ok \in ApiOutcomes(c) :
        /\ IF api_ok
           THEN mark_as_processed(c, RawEvent(0, c, m, PayloadOf(m)))
           ELSE UNCHANGED labelled
        /\ gmail' = Call("mark_as_processed", c, m, api_ok,
                         api_ok /\ service[c] /\ m # "", FALSE, <<>>, {})
        /\ UNCHANGED service
        /\ GmailFrame

\* is_processed(event): False when not connected and when the API raises,
\* else whether the message carries the label
GmailIsProcessed(c) ==
    \E m \in MessageIds(c), api_ok \in ApiOutcomes(c) :
        /\ gmail' = Call("is_processed", c, m, api_ok, api_ok /\ is_processed(c, m),
                         FALSE, <<>>, {})
        /\ UNCHANGED <<service, labelled>>
        /\ GmailFrame

\* health_check(): False when not connected and when getProfile raises
GmailHealthCheck(c) ==
    \E api_ok \in ApiOutcomes(c) :
        /\ gmail' = Call("health_check", c, "", api_ok, api_ok /\ service[c], FALSE, <<>>, {})
        /\ UNCHANGED <<service, labelled>>
        /\ GmailFrame

NextGmail ==
    \E c \in Connectors :
        \/ GmailConnect(c)
        \/ GmailConnectRaise(c)
        \/ GmailDisconnect(c)
        \/ GmailFetch(c)
        \/ GmailFetchRaise(c)
        \/ GmailMark(c)
        \/ GmailIsProcessed(c)
        \/ GmailHealthCheck(c)

SpecGmail == Init /\ [][NextGmail]_vars

(***************************************************************************)
(* DataExtractor, StructuredEvent and GoogleCalendarProvider.create_event. *)
(* A datetime is a number of hours; an ISO string is written by the        *)
(* datetime it parses to.                                                  *)
(***************************************************************************)
\* the titles the LLM gives
Titles == {"", "Dentist"}
\* the datetimes the LLM gives
Times == 1..MaxTime
\* the alert lead times the LLM gives, as an int or as a string of digits
AlertMinutes == {0, 15, 30}

\* the dicts the LLM service returns: each key absent, None, or with a value;
\* a time is an ISO string ("iso") or another string ("junk"), an alert is an
\* int, a string of digits or another string ("junk")
LlmResults ==
    [title : {Entry("absent", ""), Entry("none", "")} \cup {Entry("str", t) : t \in Titles},
     start_time : {Entry(k, 0) : k \in {"absent", "none", "junk"}}
                      \cup {Entry("iso", t) : t \in Times},
     end_time : {Entry(k, 0) : k \in {"absent", "none", "junk"}}
                    \cup {Entry("iso", t) : t \in Times},
     alert_before_minutes : {Entry(k, 0) : k \in {"absent", "none", "junk"}}
                                \cup {Entry(k, n) : k \in {"int", "digits"}, n \in AlertMinutes}]

\* llm_result.get(key): None when the key is absent or holds None
get(entry) == IF entry.kind \in {"absent", "none"} THEN Nothing ELSE Some(entry)

\* llm_result.get(key, default): the default only when the key is absent
get_default(entry, default) ==
    IF entry.kind = "absent" THEN Some(default)
    ELSE IF entry.kind = "none" THEN Nothing ELSE Some(entry.v)

\* _parse_datetime: None for None and for what fromisoformat rejects
_parse_datetime(value) ==
    IF value = Nothing THEN Nothing
    ELSE IF value[1].kind = "iso" THEN Some(value[1].v) ELSE Nothing

\* extract, lines 32-37: int(alert_before), None when int() raises
alert_before(value) ==
    IF value = Nothing THEN Nothing
    ELSE IF value[1].kind \in {"int", "digits"} THEN Some(value[1].v) ELSE Nothing

\* StructuredEvent.__post_init__: alert_before_minutes = 15 when it is None
DefaultAlert == 15

\* a __post_init__ that leaves alert_before_minutes None
__post_init___without_default(event) == event

__post_init__(event) ==
    [event EXCEPT !.alert_before_minutes = IF @ = Nothing THEN Some(DefaultAlert) ELSE @]

\* a _validate that checks the title only
_validate_title_only(event) == event.title # Nothing /\ event.title # Some("")

\* _validate: TRUE when it returns, FALSE when it raises ValueError
_validate(event) ==
    /\ event.title # Nothing /\ event.title # Some("")
    /\ (event.start_time # Nothing /\ event.end_time # Nothing) =>
           event.start_time[1] < event.end_time[1]

\* extract: the StructuredEvent built from the LLM's dict, or the raise of
\* _validate
extract(result) ==
    LET built == __post_init__(StructuredEvent(get_default(result.title, "Untitled Event"),
                                           _parse_datetime(get(result.start_time)),
                                           _parse_datetime(get(result.end_time)),
                                           alert_before(get(result.alert_before_minutes))))
    IN  [raised |-> ~_validate(built), event |-> IF _validate(built) THEN built ELSE NoEvent]

\* timedelta(hours=1)
OneHour == 1

\* the reminder create_event adds by default
DefaultReminder == 15

\* create_event: the start and end of event_body and its reminder overrides
create_event(event) ==
    [start |-> event.start_time,
     end |-> IF event.end_time # Nothing THEN event.end_time
             ELSE IF event.start_time # Nothing THEN Some(event.start_time[1] + OneHour)
             ELSE Nothing,
     reminders |-> IF event.alert_before_minutes # Nothing /\ event.alert_before_minutes[1] # 0
                   THEN IF event.alert_before_minutes[1] # DefaultReminder
                        THEN <<event.alert_before_minutes[1], DefaultReminder>>
                        ELSE <<event.alert_before_minutes[1]>>
                   ELSE <<DefaultReminder>>]

(***************************************************************************)
(* SpecExtract: the extraction of one LLM result, and the calendar event   *)
(* body built from the StructuredEvent.                                    *)
(***************************************************************************)
InitExtract ==
    /\ Constructed /\ poison = {} /\ GmailEvents
    /\ llm_result \in LlmResults
    /\ structured_event = NoEvent
    /\ event_body = NoBody
    /\ xpc = "llm"

\* process_event: extractor.extract(normalized, extraction_result)
Extract ==
    /\ xpc = "llm"
    /\ structured_event' = extract(llm_result).event
    /\ xpc' = IF extract(llm_result).raised THEN "raised" ELSE "extracted"
    /\ UNCHANGED <<llm_result, event_body, qvars, hvars, ovars, gvars>>

\* _integrate_calendar: GoogleCalendarProvider.create_event(structured_event)
CreateEvent ==
    /\ xpc = "extracted"
    /\ event_body' = create_event(structured_event)
    /\ xpc' = "created"
    /\ UNCHANGED <<llm_result, structured_event, qvars, hvars, ovars, gvars>>

NextExtract == Extract \/ CreateEvent

SpecExtract == InitExtract /\ [][NextExtract]_vars

(***************************************************************************)
(* SystemOrchestrator                                                      *)
(*                                                                         *)
(* The loops are asyncio tasks on one event loop: a task runs until it     *)
(* awaits an external collaborator (the connector's fetch_events and       *)
(* mark_as_processed, process_event, the calendar providers, asyncio.sleep)*)
(* and only then can another task run.  The queue's coroutines never       *)
(* suspend, so the steps around them run without interruption: while the   *)
(* processing loop stands at one of them no other task takes a step.       *)
(***************************************************************************)
\* the loop variable of `async for raw_event in self.event_queue.consume()`
raw_event == yielded

\* a loop that passes raw_event.event_id to the queue as it is
IdOrEmpty_passes_none(event_id) == event_id

\* raw_event.event_id or ""
IdOrEmpty(event_id) == IF event_id = None \/ event_id = "" THEN "" ELSE event_id

\* connector_map.get(source_id) finds a connector
Registered(source_id) == source_id \in Connectors

\* the processing loop is running (not suspended in an await)
Holding == ppc \in {"for", "ack", "nack", "spin"}

\* `while self.running:` of _ingestion_loop, then fetch_events() is called
IngestWhileTest(c) ==
    /\ ipc' = [ipc EXCEPT ![c] = IF running THEN "fetch" ELSE "done"]
    /\ cursor' = [cursor EXCEPT ![c] = 0]

\* one entry of `steps`
Step(call, on, ok) == [call |-> call, on |-> on, ok |-> ok, requeue |-> FALSE]

\* the position of a connector in SystemOrchestrator.connectors
ConnectorIndex(c) == IF c = "A" THEN 1 ELSE 2

\* start(): running = True, connect every connector, then gather the loops
Start ==
    /\ ppc = "new"
    /\ running' = TRUE
    /\ service' = [c \in Connectors |-> TRUE]
    /\ ipc' = [c \in Connectors |-> "while"]
    /\ ppc' = "while"
    /\ UNCHANGED <<qvars, hvars, labelled, cursor, faults, structured, marks, ackCalls, prov, steps, poison, noid, foreign, gvars, xvars>>

\* a start() that catches the exception of connect() and goes on to gather the
\* loops, connector c not connected
StartRaise_goes_on(c) ==
    /\ ppc = "new"
    /\ Len(faults) < MaxFaults
    /\ running' = TRUE
    /\ service' = [d \in Connectors |-> d # c]
    /\ faults' = Append(faults, <<"connect", c>>)
    /\ ipc' = [d \in Connectors |-> "while"]
    /\ ppc' = "while"
    /\ UNCHANGED <<qvars, hvars, labelled, cursor, structured, marks, ackCalls, prov, steps, poison, noid, foreign, gvars, xvars>>

\* start(): connect() of connector c raises.  The connectors before it are
\* connected, the exception leaves start() and main(), which catches
\* KeyboardInterrupt only: no loop is created and stop() is not called.
StartRaise(c) ==
    /\ ppc = "new"
    /\ Len(faults) < MaxFaults
    /\ running' = TRUE
    /\ service' = [d \in Connectors |-> ConnectorIndex(d) < ConnectorIndex(c)]
    /\ faults' = Append(faults, <<"connect", c>>)
    /\ ppc' = "aborted"
    /\ UNCHANGED <<qvars, hvars, labelled, ipc, cursor, structured, marks, ackCalls, prov, steps, poison, noid, foreign, gvars, xvars>>

\* stop(): running = False, then disconnect every connector
Stop ==
    /\ running
    /\ ppc # "aborted"
    /\ ~Holding
    /\ running' = FALSE
    /\ service' = [c \in Connectors |-> FALSE]
    /\ UNCHANGED <<qvars, hvars, labelled, ipc, cursor, ppc, faults, structured, marks, ackCalls, prov, steps, poison, noid, foreign, gvars, xvars>>

\* _ingestion_loop: the task's first turn
IngestWhile(c) ==
    /\ ipc[c] = "while"
    /\ ~Holding
    /\ IngestWhileTest(c)
    /\ UNCHANGED <<qvars, hvars, running, service, labelled, ppc, faults, structured, marks, ackCalls, prov, steps, poison, noid, foreign, gvars, xvars>>

\* _ingestion_loop: one pull of `async for event in connector.fetch_events()`.
\* The sequence raises when the connector is not connected (the loop sleeps),
\* ends when no unprocessed message is left (the loop tests running and
\* fetches again at once), and otherwise yields an event, which is published.
IngestFetch(c) ==
    /\ ipc[c] = "fetch"
    /\ ~Holding
    /\ IF ~service[c]
       THEN /\ ipc' = [ipc EXCEPT ![c] = "sleep"]
            /\ UNCHANGED <<qvars, hvars, cursor>>
       ELSE IF NextUnprocessed(c) = 0
       THEN /\ IngestWhileTest(c)
            /\ UNCHANGED <<qvars, hvars>>
       ELSE /\ Len(published) < MaxIngest
            /\ Publish(yield_event(c, Messages(c)[NextUnprocessed(c)]))
            /\ cursor' = [cursor EXCEPT ![c] = NextUnprocessed(c)]
            /\ UNCHANGED ipc
    /\ UNCHANGED <<running, service, labelled, ppc, faults, structured, marks, ackCalls, prov, steps, poison, noid, foreign, gvars, xvars>>

\* an ingestion loop without the try: the exception ends the task
IngestFetchRaise_exits(c) ==
    /\ ipc[c] = "fetch"
    /\ ~Holding
    /\ service[c]
    /\ Len(faults) < MaxFaults
    /\ faults' = Append(faults, <<"fetch_events", c>>)
    /\ ipc' = [ipc EXCEPT ![c] = "done"]
    /\ UNCHANGED <<qvars, hvars, running, service, labelled, cursor, ppc, structured, marks, ackCalls, prov, steps, poison, noid, foreign, gvars, xvars>>

\* _ingestion_loop: the Gmail API fails inside fetch_events, which raises
IngestFetchRaise(c) ==
    /\ ipc[c] = "fetch"
    /\ ~Holding
    /\ service[c]
    /\ Len(faults) < MaxFaults
    /\ faults' = Append(faults, <<"fetch_events", c>>)
    /\ ipc' = [ipc EXCEPT ![c] = "sleep"]
    /\ UNCHANGED <<qvars, hvars, running, service, labelled, cursor, ppc, structured, marks, ackCalls, prov, steps, poison, noid, foreign, gvars, xvars>>

\* _ingestion_loop: publish raises for the event fetch_events yielded (a
\* queue behind the EventQueue interface can fail); the event is not queued
IngestPublishRaise(c) ==
    /\ ipc[c] = "fetch"
    /\ ~Holding
    /\ service[c]
    /\ NextUnprocessed(c) # 0
    /\ Len(faults) < MaxFaults
    /\ faults' = Append(faults, <<"publish", c>>)
    /\ ipc' = [ipc EXCEPT ![c] = "sleep"]
    /\ UNCHANGED <<qvars, hvars, running, service, labelled, cursor, ppc, structured, marks, ackCalls, prov, steps, poison, noid, foreign, gvars, xvars>>

\* _ingestion_loop: asyncio.sleep(5) after an exception is over
IngestWake(c) ==
    /\ ipc[c] = "sleep"
    /\ ~Holding
    /\ IngestWhileTest(c)
    /\ UNCHANGED <<qvars, hvars, running, service, labelled, ppc, faults, structured, marks, ackCalls, prov, steps, poison, noid, foreign, gvars, xvars>>

\* _processing_loop: the task's first turn, `while self.running:` and consume()
ProcWhile ==
    /\ ppc = "while"
    /\ ppc' = IF running THEN "for" ELSE "done"
    /\ UNCHANGED <<qvars, hvars, running, service, labelled, ipc, cursor, faults, structured, marks, ackCalls, prov, steps, poison, noid, foreign, gvars, xvars>>

\* _processing_loop: one pull of `async for raw_event in consume()`.  With an
\* event, process_event is awaited; on an empty backlog the generator ends
\* and the while loop tests running and calls consume() again, without an
\* await in between.
ProcNext ==
    /\ ppc = "for"
    /\ Consume
    /\ ppc' = IF yielded' # StopAsyncIteration THEN "extract"
              ELSE IF running THEN "spin" ELSE "done"
    /\ steps' = <<>>
    /\ UNCHANGED <<running, service, labelled, ipc, cursor, faults, structured, marks, ackCalls, prov, poison, noid, foreign, gvars, xvars>>

\* _processing_loop: the busy loop on an empty backlog (no task can run, so
\* nothing is published and running stays True)
ProcSpin ==
    /\ ppc = "spin"
    /\ Consume
    /\ UNCHANGED <<ovars, gvars, xvars>>

\* asyncio.sleep(1) of the outer except branch of _processing_loop
ProcessingBackoff == 1

\* a processing loop without the outer try: the exception of the pull ends
\* the task
ProcConsumeRaise_exits ==
    /\ ppc \in {"for", "spin"}
    /\ Len(faults) < MaxFaults
    /\ faults' = Append(faults, <<"consume", ProcessingBackoff>>)
    /\ ppc' = "done"
    /\ UNCHANGED <<qvars, hvars, running, service, labelled, ipc, cursor, structured, marks, ackCalls, prov, steps, poison, noid, foreign, gvars, xvars>>

\* _processing_loop: the pull of `async for raw_event in consume()` raises (a
\* fault of the queue): the outer except branch prints and awaits sleep(1)
ProcConsumeRaise ==
    /\ ppc \in {"for", "spin"}
    /\ Len(faults) < MaxFaults
    /\ faults' = Append(faults, <<"consume", ProcessingBackoff>>)
    /\ ppc' = "backoff"
    /\ UNCHANGED <<qvars, hvars, running, service, labelled, ipc, cursor, structured, marks, ackCalls, prov, steps, poison, noid, foreign, gvars, xvars>>

\* _processing_loop: sleep(1) returns, `while self.running:` is tested and
\* consume() is called again
ProcBackoffWake ==
    /\ ppc = "backoff"
    /\ ppc' = IF running THEN "for" ELSE "done"
    /\ UNCHANGED <<qvars, hvars, running, service, labelled, ipc, cursor, faults, structured, marks, ackCalls, prov, steps, poison, noid, foreign, gvars, xvars>>

\* _processing_loop: process_event returns a StructuredEvent, and
\* _integrate_calendar calls the first provider
ProcExtract ==
    /\ ppc = "extract"
    /\ raw_event.event_id \notin poison
    /\ structured' = Append(structured, raw_event.oid)
    /\ steps' = Append(steps, Step("process_event", "", TRUE))
    /\ ppc' = "calendar"
    /\ prov' = 1
    /\ UNCHANGED <<qvars, hvars, running, service, labelled, ipc, cursor, faults, marks, ackCalls, poison, noid, foreign, gvars, xvars>>

\* _processing_loop: process_event raises: every time for a poison event (one
\* entry of `faults` for all its raises), else while the fault budget lasts
ProcExtractRaise ==
    /\ ppc = "extract"
    /\ raw_event.event_id \in poison \/ Len(faults) < MaxFaults
    /\ faults' = IF raw_event.event_id \in poison
                    /\ \E i \in DOMAIN faults : faults[i] = <<"process_event", raw_event.oid>>
                 THEN faults
                 ELSE Append(faults, <<"process_event", raw_event.oid>>)
    /\ steps' = Append(steps, Step("process_event", "", FALSE))
    /\ ppc' = "nack"
    /\ UNCHANGED <<qvars, hvars, running, service, labelled, ipc, cursor, structured, marks, ackCalls, prov, poison, noid, foreign, gvars, xvars>>

\* _integrate_calendar after a provider's create_event, `log` being the calls
\* made so far: the next provider's create_event, or after the last provider
\* _send_notifications (which does nothing) and the lookup of the connector
\* by source_id: with a connector mark_as_processed is awaited, with none the
\* loop goes on to ack
AfterProvider(log) ==
    IF prov < Len(Providers)
    THEN /\ prov' = prov + 1
         /\ steps' = log
         /\ ppc' = "calendar"
    ELSE /\ prov' = 0
         /\ steps' = Append(log, Step("_send_notifications", "", TRUE))
         /\ ppc' = IF Registered(raw_event.source_id) THEN "mark" ELSE "ack"

\* a provider loop that ends with the last provider and goes on to ack
\* without the connector's mark_as_processed
ProcCalendar_skips_mark ==
    /\ ppc = "calendar"
    /\ IF prov < Len(Providers)
       THEN /\ prov' = prov + 1
            /\ ppc' = "calendar"
            /\ steps' = Append(steps, Step("create_event", Providers[prov], TRUE))
       ELSE /\ prov' = 0
            /\ ppc' = "ack"
            /\ steps' = Append(Append(steps, Step("create_event", Providers[prov], TRUE)),
                               Step("_send_notifications", "", TRUE))
    /\ UNCHANGED <<qvars, hvars, running, service, labelled, ipc, cursor, faults, structured, marks, ackCalls, poison, noid, foreign, gvars, xvars>>

\* _integrate_calendar: the provider's create_event returns
ProcCalendar ==
    /\ ppc = "calendar"
    /\ AfterProvider(Append(steps, Step("create_event", Providers[prov], TRUE)))
    /\ UNCHANGED <<qvars, hvars, running, service, labelled, ipc, cursor, faults, structured, marks, ackCalls, poison, noid, foreign, gvars, xvars>>

\* an _integrate_calendar without the try: the provider's exception reaches
\* the except branch of the processing loop
ProcCalendarRaise_escapes ==
    /\ ppc = "calendar"
    /\ Len(faults) < MaxFaults
    /\ faults' = Append(faults, <<"create_event", raw_event.oid>>)
    /\ steps' = Append(steps, Step("create_event", Providers[prov], FALSE))
    /\ prov' = 0
    /\ ppc' = "nack"
    /\ UNCHANGED <<qvars, hvars, running, service, labelled, ipc, cursor, structured, marks, ackCalls, poison, noid, foreign, gvars, xvars>>

\* _integrate_calendar: the provider's create_event raises; the exception is
\* caught and printed inside the provider loop
ProcCalendarRaise ==
    /\ ppc = "calendar"
    /\ Len(faults) < MaxFaults
    /\ faults' = Append(faults, <<"create_event", raw_event.oid>>)
    /\ AfterProvider(Append(steps, Step("create_event", Providers[prov], FALSE)))
    /\ UNCHANGED <<qvars, hvars, running, service, labelled, ipc, cursor, structured, marks, ackCalls, poison, noid, foreign, gvars, xvars>>

\* a loop that acks only when mark_as_processed returned True
ProcMark_heeds_result ==
    /\ ppc = "mark"
    /\ mark_as_processed(raw_event.source_id, raw_event)
    /\ marks' = Append(marks, [oid |-> raw_event.oid, connector |-> raw_event.source_id])
    /\ steps' = Append(steps, Step("mark_as_processed", raw_event.source_id, TRUE))
    /\ ppc' = IF raw_event.event_id \in labelled'[raw_event.source_id] THEN "ack" ELSE "nack"
    /\ UNCHANGED <<qvars, hvars, running, service, ipc, cursor, faults, structured, ackCalls, prov, poison, noid, foreign, gvars, xvars>>

\* _processing_loop: mark_as_processed returns (the result is not looked at)
ProcMark ==
    /\ ppc = "mark"
    /\ mark_as_processed(raw_event.source_id, raw_event)
    /\ marks' = Append(marks, [oid |-> raw_event.oid, connector |-> raw_event.source_id])
    /\ steps' = Append(steps, Step("mark_as_processed", raw_event.source_id, TRUE))
    /\ ppc' = "ack"
    /\ UNCHANGED <<qvars, hvars, running, service, ipc, cursor, faults, structured, ackCalls, prov, poison, noid, foreign, gvars, xvars>>

\* a loop that catches the exception of mark_as_processed and goes on to ack
ProcMarkRaise_goes_on ==
    /\ ppc = "mark"
    /\ Len(faults) < MaxFaults
    /\ faults' = Append(faults, <<"mark_as_processed", raw_event.oid>>)
    /\ marks' = Append(marks, [oid |-> raw_event.oid, connector |-> raw_event.source_id])
    /\ steps' = Append(steps, Step("mark_as_processed", raw_event.source_id, FALSE))
    /\ ppc' = "ack"
    /\ UNCHANGED <<qvars, hvars, running, service, labelled, ipc, cursor, structured, ackCalls, prov, poison, noid, foreign, gvars, xvars>>

\* _processing_loop: the connector's mark_as_processed raises
ProcMarkRaise ==
    /\ ppc = "mark"
    /\ Len(faults) < MaxFaults
    /\ faults' = Append(faults, <<"mark_as_processed", raw_event.oid>>)
    /\ marks' = Append(marks, [oid |-> raw_event.oid, connector |-> raw_event.source_id])
    /\ steps' = Append(steps, Step("mark_as_processed", raw_event.source_id, FALSE))
    /\ ppc' = "nack"
    /\ UNCHANGED <<qvars, hvars, running, service, labelled, ipc, cursor, structured, ackCalls, prov, poison, noid, foreign, gvars, xvars>>

\* _processing_loop: ack(raw_event.event_id or "")
ProcAck ==
    /\ ppc = "ack"
    /\ Ack(IdOrEmpty(raw_event.event_id))
    /\ ackCalls' = Append(ackCalls, [oid |-> raw_event.oid, id |-> IdOrEmpty(raw_event.event_id)])
    /\ steps' = Append(steps, Step("ack", IdOrEmpty(raw_event.event_id), TRUE))
    /\ ppc' = "for"
    /\ UNCHANGED <<running, service, labelled, ipc, cursor, faults, structured, marks, prov, poison, noid, foreign, gvars, xvars>>

\* an except branch that acknowledges the failed event instead of nacking it
ProcNack_acks ==
    /\ ppc = "nack"
    /\ Ack(IdOrEmpty(raw_event.event_id))
    /\ ackCalls' = Append(ackCalls, [oid |-> raw_event.oid, id |-> IdOrEmpty(raw_event.event_id)])
    /\ steps' = Append(steps, Step("ack", IdOrEmpty(raw_event.event_id), TRUE))
    /\ ppc' = "for"
    /\ UNCHANGED <<running, service, labelled, ipc, cursor, faults, structured, marks, prov, poison, noid, foreign, gvars, xvars>>

\* an except branch that nacks without requeue
ProcNack_drops ==
    /\ ppc = "nack"
    /\ Nack(IdOrEmpty(raw_event.event_id), FALSE)
    /\ steps' = Append(steps, [Step("nack", IdOrEmpty(raw_event.event_id), TRUE)
                                  EXCEPT !.requeue = FALSE])
    /\ ppc' = "for"
    /\ UNCHANGED <<running, service, labelled, ipc, cursor, faults, structured, marks, ackCalls, prov, poison, noid, foreign, gvars, xvars>>

\* a processing loop whose inner try is missing: the exception ends the
\* `async for`, and the task with it
ProcNack_halts ==
    /\ ppc = "nack"
    /\ ppc' = "done"
    /\ UNCHANGED <<qvars, hvars, running, service, labelled, ipc, cursor, faults, structured, marks, ackCalls, prov, steps, poison, noid, foreign, gvars, xvars>>

\* _processing_loop: the except branch, nack(raw_event.event_id or "", requeue=True)
ProcNack ==
    /\ ppc = "nack"
    /\ Nack(IdOrEmpty(raw_event.event_id), TRUE)
    /\ steps' = Append(steps, [Step("nack", IdOrEmpty(raw_event.event_id), TRUE)
                                  EXCEPT !.requeue = TRUE])
    /\ ppc' = "for"
    /\ UNCHANGED <<running, service, labelled, ipc, cursor, faults, structured, marks, ackCalls, prov, poison, noid, foreign, gvars, xvars>>

Ingestion(c) ==
    \/ IngestWhile(c)
    \/ IngestFetch(c)
    \/ IngestFetchRaise(c)
    \/ IngestPublishRaise(c)
    \/ IngestWake(c)

Processing ==
    \/ ProcWhile
    \/ ProcNext
    \/ ProcSpin
    \/ ProcConsumeRaise
    \/ ProcBackoffWake
    \/ ProcExtract
    \/ ProcExtractRaise
    \/ ProcCalendar
    \/ ProcCalendarRaise
    \/ ProcMark
    \/ ProcMarkRaise
    \/ ProcAck
    \/ ProcNack

Next ==
    \/ Start
    \/ \E c \in Connectors : StartRaise(c)
    \/ Stop
    \/ \E c \in Connectors : Ingestion(c)
    \/ Processing

Spec == Init /\ [][Next]_vars

\* the loops when no call but process_event raises
IngestionOfPoison(c) == IngestWhile(c) \/ IngestFetch(c) \/ IngestWake(c)

ProcessingOfPoison ==
    \/ ProcWhile
    \/ ProcNext
    \/ ProcSpin
    \/ ProcExtract
    \/ ProcExtractRaise
    \/ ProcCalendar
    \/ ProcMark
    \/ ProcAck
    \/ ProcNack

NextPoison ==
    \/ Start
    \/ Stop
    \/ \E c \in Connectors : IngestionOfPoison(c)
    \/ ProcessingOfPoison

\* the event loop runs every task that is ready, and every await of a
\* collaborator returns or raises
Fairness == WF_vars(ProcessingOfPoison) /\ \A c \in Connectors : WF_vars(IngestionOfPoison(c))

\* the orchestrator with events that cannot be extracted, under the event
\* loop's scheduling
SpecPoison == InitPoison /\ [][NextPoison]_vars /\ Fairness

\* the messages built into events without an event_id: one of connector A's,
\* or every message
NoIdChoices == {{"a1"}, {"a1", "a2", "b1"}}

\* connectors that leave event_id at its default for some messages
InitNoId == Constructed /\ poison = {} /\ NoExtraction /\ noid \in NoIdChoices /\ foreign = {}

\* the orchestrator with events that carry no event_id
SpecNoId == InitNoId /\ [][Next]_vars

\* the messages built into events under a source_id of their own: one of
\* connector A's, or connector B's
ForeignChoices == {{"a1"}, {"b1"}}

\* connectors that write another source_id than their own into some events
InitForeign == Constructed /\ poison = {} /\ NoExtraction /\ noid = {} /\ foreign \in ForeignChoices

\* the orchestrator with events of a source_id that connector_map lacks
SpecForeign == InitForeign /\ [][Next]_vars

(***************************************************************************)
(* Readings of the history.                                                *)
(***************************************************************************)
\* the events published so far, by oid (published[o].oid = o)
Oids == DOMAIN published

NumDeliveries(o) == Cardinality({i \in DOMAIN delivered : delivered[i].oid = o})

\* deliveries of an event equal to the published one: same event_id, same payload
NumSameDeliveries(o) == Cardinality({i \in DOMAIN delivered : delivered[i] = published[o]})

NumRequeues(o) == Cardinality({i \in DOMAIN requeued : requeued[i].oid = o})

InBacklog(o) == \E i \in DOMAIN queue : queue[i].oid = o

InFlight(o) == \E k \in DOMAIN processing : processing[k].oid = o

\* no other published event carries this event's event_id
UniqueId(o) == \A j \in Oids : j # o => published[j].event_id # published[o].event_id

\* by the calls made so far the event is in flight: yielded, and neither
\* acked nor nacked since
CalledInFlight(o) == NumDeliveries(o) > NumRequeues(o) /\ o \notin acked /\ o \notin dropped

\* by the calls made so far no event with this id is in flight
IdNotInFlight(id) == \A o \in Oids : published[o].event_id = id => ~CalledInFlight(o)

(***************************************************************************)
(* C1 FIFO delivery: as long as no nack has re-appended an event, the      *)
(* events consume has yielded, followed by the backlog, are exactly the    *)
(* published events in publish order; so e1 published before e2 is yielded *)
(* before e2.                                                              *)
(***************************************************************************)
C1_FifoDelivery == requeued = <<>> => delivered \o queue = published

C1_Witness ==
    /\ requeued = <<>>
    /\ Len(delivered) >= 2
    /\ delivered[1].source_id # delivered[2].source_id

(***************************************************************************)
(* C2 Nack-with-requeue is at-least-once: whenever nack(id, requeue=True)  *)
(* has re-appended the event in flight under id, a later pull of consume   *)
(* yields an event with the same event_id and an equal payload (the        *)
(* original event), given that the client keeps pulling.                   *)
(***************************************************************************)
AwaitingRedelivery(o) ==
    /\ o \in Oids
    /\ NumRequeues(o) > 0
    /\ NumSameDeliveries(o) <= NumRequeues(o)

Redelivered(o) ==
    /\ o \in Oids
    /\ NumSameDeliveries(o) > NumRequeues(o)

C2_RequeueRedelivers ==
    \A o \in 1..MaxPublish : AwaitingRedelivery(o) ~> Redelivered(o)

C2_Witness ==
    \E o \in Oids :
        /\ NumRequeues(o) > 0
        /\ Redelivered(o)
        /\ yielded = published[o]

(***************************************************************************)
(* C3 Requeue goes to the tail: once an event re-appended by               *)
(* nack(requeue=True) has been yielded again, every event that was in the  *)
(* backlog at the time of that nack has been yielded in between.           *)
(***************************************************************************)
C3_RequeueToTail ==
    \A k \in DOMAIN requeued :
        \A i \in DOMAIN delivered :
            (i > requeued[k].at /\ delivered[i].oid = requeued[k].oid) =>
                \A x \in requeued[k].ahead :
                    \E j \in DOMAIN delivered :
                        requeued[k].at < j /\ j < i /\ delivered[j].oid = x

C3_Witness ==
    \E k \in DOMAIN requeued :
        /\ requeued[k].ahead # {}
        /\ \E i \in DOMAIN delivered :
              i > requeued[k].at /\ delivered[i].oid = requeued[k].oid

(***************************************************************************)
(* C4 Nack-without-requeue drops: an event removed by                      *)
(* nack(id, requeue=False) is neither in the backlog nor in flight, and,   *)
(* when no other event was published under its id, consume has not yielded *)
(* that id since.                                                          *)
(***************************************************************************)
C4_NackDrops ==
    \A o \in dropped :
        /\ ~InBacklog(o)
        /\ ~InFlight(o)
        /\ UniqueId(o) =>
              Cardinality({i \in DOMAIN delivered :
                              delivered[i].event_id = published[o].event_id})
                  = NumRequeues(o) + 1

C4_Witness ==
    \E o \in dropped :
        /\ UniqueId(o)
        /\ op.name = "consume"
        /\ Len(delivered) >= 2

(***************************************************************************)
(* C5 Ack, then nack is a no-op: a nack (requeue True or False) with the   *)
(* id of an acked event, no event with that id having been yielded since,  *)
(* returns success and changes neither the backlog nor the in-flight set.  *)
(***************************************************************************)
AckedAndGone(id) ==
    /\ \E o \in acked : published[o].event_id = id
    /\ IdNotInFlight(id)

C5_AckThenNackNoop ==
    [][\A id \in CallIds :
          (op'.name = "nack" /\ op'.event_id = id /\ AckedAndGone(id)) =>
              (queue' = queue /\ processing' = processing /\ ret' = TRUE)]_vars

C5_Witness ==
    /\ op.name = "nack"
    /\ op.requeue
    /\ ~op.hit
    /\ AckedAndGone(op.event_id)
    /\ requeued = <<>>

(***************************************************************************)
(* C6 Ack is idempotent and total: an ack with an id under which no event  *)
(* is in flight (acked before, never consumed, never published, the empty  *)
(* string) returns success and changes neither the backlog nor the         *)
(* in-flight set.                                                          *)
(***************************************************************************)
C6_AckIdempotentTotal ==
    [][\A id \in CallIds :
          (op'.name = "ack" /\ op'.event_id = id /\ IdNotInFlight(id)) =>
              (queue' = queue /\ processing' = processing /\ ret' = TRUE)]_vars

C6_Witness ==
    /\ op.name = "ack"
    /\ ~op.hit
    /\ \E o \in acked : published[o].event_id = op.event_id
    /\ queue # <<>>

(***************************************************************************)
(* C7 Per-event state machine: every published event whose event_id no    *)
(* other published event carries is in exactly one of queued (once in the  *)
(* backlog), in-flight, acknowledged, dropped; and it changes state only   *)
(* queued -> in-flight by consume, in-flight -> acknowledged by ack,       *)
(* in-flight -> queued by nack(requeue=True), in-flight -> dropped by      *)
(* nack(requeue=False).                                                    *)
(***************************************************************************)
StateOf(o) ==
    IF InBacklog(o) THEN "queued"
    ELSE IF InFlight(o) THEN "in-flight"
    ELSE IF o \in acked THEN "acknowledged"
    ELSE IF o \in dropped THEN "dropped"
    ELSE "lost"

C7_OneState ==
    \A o \in Oids :
        UniqueId(o) =>
            Cardinality({i \in DOMAIN queue : queue[i].oid = o})
                + (IF InFlight(o) THEN 1 ELSE 0)
                + (IF o \in acked THEN 1 ELSE 0)
                + (IF o \in dropped THEN 1 ELSE 0) = 1

C7_Transitions ==
    \A o \in Oids :
        (UniqueId(o)' /\ StateOf(o)' # StateOf(o)) =>
            \/ StateOf(o) = "queued" /\ StateOf(o)' = "in-flight" /\ op'.name = "consume"
            \/ StateOf(o) = "in-flight" /\ StateOf(o)' = "acknowledged" /\ op'.name = "ack"
            \/ StateOf(o) = "in-flight" /\ StateOf(o)' = "queued"
                  /\ op'.name = "nack" /\ op'.requeue
            \/ StateOf(o) = "in-flight" /\ StateOf(o)' = "dropped"
                  /\ op'.name = "nack" /\ ~op'.requeue

C7_EventStateMachine == []C7_OneState /\ [][C7_Transitions]_vars

C7_Witness ==
    \E o1, o2 \in Oids :
        /\ UniqueId(o1) /\ UniqueId(o2)
        /\ o1 \in acked
        /\ o2 \in dropped
        /\ NumRequeues(o2) > 0

(***************************************************************************)
(* Readings of the orchestrator's history.                                 *)
(***************************************************************************)
\* the ids of scenario C: connector A lists a1, a2 and connector B lists b1
ScenarioIds == UNION {{Messages(c)[i] : i \in DOMAIN Messages(c)} : c \in Connectors}

NumStructured(o) == Cardinality({i \in DOMAIN structured : structured[i] = o})

NumMarks(o) == Cardinality({i \in DOMAIN marks : marks[i].oid = o})

NumAcks(o) == Cardinality({i \in DOMAIN ackCalls : ackCalls[i].oid = o})

MarkRaised(o) == \E i \in DOMAIN faults : faults[i] = <<"mark_as_processed", o>>

\* one StructuredEvent, one mark_as_processed on the event's own connector
\* and one ack with the event's own id: never more, and all of them once
\* the event is acked
ProcessedOnce(o) ==
    /\ NumStructured(o) <= 1
    /\ NumMarks(o) <= 1
    /\ NumAcks(o) <= 1
    /\ NumAcks(o) = 1 =>
          /\ NumStructured(o) = 1
          /\ NumMarks(o) = 1
          /\ \A i \in DOMAIN marks :
                marks[i].oid = o => marks[i].connector = published[o].source_id
          /\ \A i \in DOMAIN ackCalls :
                ackCalls[i].oid = o => ackCalls[i].id = published[o].event_id

(***************************************************************************)
(* C8 End-to-end scenario C: with connector A listing a1, a2 and connector *)
(* B listing b1, the processing loop acks none of the three ids more than  *)
(* once.                                                                   *)
(***************************************************************************)
C8_EachIdAckedOnce ==
    \A id \in ScenarioIds :
        Cardinality({i \in DOMAIN ackCalls : ackCalls[i].id = id}) <= 1

(***************************************************************************)
(* C9 Per-source idempotency: with connectors whose fetch sequence omits   *)
(* the messages marked processed, no source item is published to the       *)
(* queue more than once.                                                   *)
(***************************************************************************)
C9_ItemPublishedOnce ==
    \A i, j \in DOMAIN published :
        (i # j /\ published[i].source_id = published[j].source_id) =>
            published[i].event_id # published[j].event_id

Calls(log) == [i \in DOMAIN log |-> log[i].call]

LastCall == IF steps = <<>> THEN "" ELSE steps[Len(steps)].call

\* the calls of a delivery that ends in ack, for an event of a registered
\* connector
AckedDeliveryCalls ==
    <<"process_event">> \o [i \in DOMAIN Providers |-> "create_event"]
        \o <<"_send_notifications", "mark_as_processed", "ack">>

IsPrefix(a, b) == Len(a) <= Len(b) /\ a = SubSeq(b, 1, Len(a))

ExtractionRaised == steps # <<>> /\ steps[1].call = "process_event" /\ ~steps[1].ok

SinkRaised == \E i \in DOMAIN steps : steps[i].call = "create_event" /\ ~steps[i].ok

MarkStepRaised == \E i \in DOMAIN steps : steps[i].call = "mark_as_processed" /\ ~steps[i].ok

RaisedFor(call, o) == \E i \in DOMAIN faults : faults[i] = <<call, o>>

(***************************************************************************)
(* C11 Step ordering: a delivery that ends in ack has made exactly these   *)
(* calls, in this order: process_event (which returned), create_event on   *)
(* every calendar provider in turn, _send_notifications, mark_as_processed *)
(* (which returned) on the connector registered under the event's          *)
(* source_id, and ack with the event's id.                                 *)
(***************************************************************************)
C11_StepOrder ==
    LastCall = "ack" =>
        /\ Calls(steps) = AckedDeliveryCalls
        /\ steps[1].ok
        /\ \A i \in DOMAIN Providers : steps[i + 1].on = Providers[i]
        /\ steps[Len(steps) - 1].on = raw_event.source_id
        /\ steps[Len(steps) - 1].ok
        /\ steps[Len(steps)].on = raw_event.event_id

C11_Witness ==
    /\ LastCall = "ack"
    /\ NumRequeues(raw_event.oid) > 0
    /\ raw_event.event_id \in labelled[raw_event.source_id]

(***************************************************************************)
(* C12 End-to-end scenario B: when process_event raises for the consumed   *)
(* event, the only other call of that delivery is nack with the event's id *)
(* and requeue=True (no sink, no mark_as_processed, no ack), which puts    *)
(* the event at the tail of the backlog; and the event is later yielded by *)
(* consume again.                                                          *)
(***************************************************************************)
C12_NackOnly ==
    ExtractionRaised =>
        \/ Len(steps) = 1 /\ ppc = "nack"
        \/ /\ Len(steps) = 2
           /\ steps[2] = [call |-> "nack", on |-> raw_event.event_id, ok |-> TRUE,
                          requeue |-> TRUE]
           /\ ppc = "for"
           /\ queue # <<>>
           /\ queue[Len(queue)] = raw_event
           /\ raw_event.event_id \notin DOMAIN processing

C12_FailedThenNacked(o) == ExtractionRaised /\ raw_event.oid = o /\ LastCall = "nack"

C12_HeldAgain(o) == ppc = "extract" /\ raw_event.oid = o /\ steps = <<>>

C12_ExtractionFailureRequeues ==
    /\ []C12_NackOnly
    /\ \A o \in 1..MaxIngest : C12_FailedThenNacked(o) ~> C12_HeldAgain(o)

C12_Witness ==
    /\ ppc = "extract"
    /\ steps = <<>>
    /\ RaisedFor("process_event", raw_event.oid)
    /\ NumRequeues(raw_event.oid) > 0
    /\ NumDeliveries(raw_event.oid) = 2

(***************************************************************************)
(* C13 A failing event never halts the processing loop: once extraction    *)
(* has failed for an event that cannot be extracted, every other event     *)
(* published (before or after the failure) that can be extracted is        *)
(* eventually acked.                                                       *)
(***************************************************************************)
PoisonFailed(p) ==
    /\ p \in Oids
    /\ published[p].event_id \in poison
    /\ RaisedFor("process_event", p)

C13_Pending(g) ==
    /\ g \in Oids
    /\ published[g].event_id \notin poison
    /\ \E p \in Oids : PoisonFailed(p)

C13_FailingEventNeverHalts ==
    \A g \in 1..MaxIngest : C13_Pending(g) ~> (g \in acked)

C13_Witness ==
    \E p, g \in Oids :
        /\ PoisonFailed(p)
        /\ p < g
        /\ g \in acked
        /\ running
        /\ ppc = "extract"
        /\ raw_event.oid = p

(***************************************************************************)
(* C14 Connect-failure isolation at startup: when connect() has raised for *)
(* a connector, start() has not been left by the exception: the processing *)
(* loop and the ingestion loops of the other connectors are scheduled.     *)
(***************************************************************************)
C14_ConnectFailureIsolated ==
    \A c \in Connectors :
        RaisedFor("connect", c) =>
            /\ ppc \notin {"new", "aborted"}
            /\ \A d \in Connectors \ {c} : ipc[d] # "new"

(***************************************************************************)
(* C15 Shutdown terminates all loops: once stop() has set running to       *)
(* false, every ingestion loop and the processing loop eventually exit,    *)
(* whatever the backlog holds and whatever process_event does.             *)
(***************************************************************************)
Stopped == ~running /\ ppc \notin {"new", "aborted"}

AllLoopsDone == ppc = "done" /\ \A c \in Connectors : ipc[c] = "done"

C15_StopTerminatesLoops == Stopped ~> AllLoopsDone

(***************************************************************************)
(* C16 Cooperative shutdown does not cut into work in flight: after stop() *)
(* no connector is disconnected while its ingestion loop is inside a fetch *)
(* or while the processing loop holds a consumed event of that connector   *)
(* that it has not yet called mark_as_processed for.                       *)
(***************************************************************************)
C16_NoDisconnectInFlight ==
    \A c \in Connectors :
        (Stopped /\ ~service[c]) =>
            /\ ipc[c] # "fetch"
            /\ ~(ppc \in {"extract", "calendar", "mark"} /\ raw_event.source_id = c)

(***************************************************************************)
(* C17 Ingestion backoff: a connector's ingestion loop starts a fetch only *)
(* as its first one or out of the backoff sleep; it never goes from the    *)
(* end of one fetch straight into the next.                                *)
(***************************************************************************)
FetchStarts(c) ==
    /\ ipc'[c] = "fetch"
    /\ cursor'[c] = 0
    /\ ipc[c] # "fetch" \/ cursor[c] # 0

C17_BackoffBetweenFetches ==
    [][\A c \in Connectors : FetchStarts(c) => ipc[c] \in {"while", "sleep"}]_vars

(***************************************************************************)
(* C18 No busy-spin on an empty queue: when the processing loop pulls from *)
(* consume on an empty backlog while running, it is suspended afterwards   *)
(* (the other loops can run) before it pulls again.                        *)
(***************************************************************************)
C18_EmptyQueueYields ==
    [][(ppc = "for" /\ queue = <<>> /\ running) => ~Holding']_vars

(***************************************************************************)
(* C19 Ingestion loops survive connector faults: an ingestion loop has     *)
(* exited only when running is false; neither an exception of fetch_events *)
(* or publish nor the end of a fetch sequence ends it while running.       *)
(***************************************************************************)
C19_IngestionExitsOnlyWhenStopped ==
    \A c \in Connectors : ipc[c] = "done" => ~running

C19_Witness ==
    \E c \in Connectors :
        /\ RaisedFor("fetch_events", c) \/ RaisedFor("publish", c)
        /\ running
        /\ ipc[c] = "fetch"
        /\ cursor[c] > 0

(***************************************************************************)
(* C20 Sink-fault isolation: when a calendar provider's create_event has   *)
(* raised for the event held, the delivery goes on as if it had returned:  *)
(* the remaining providers are called in turn, then mark_as_processed,     *)
(* then ack; the event is nacked only if mark_as_processed raises.         *)
(***************************************************************************)
C20_SinkFaultIsolated ==
    SinkRaised =>
        /\ MarkStepRaised \/ IsPrefix(Calls(steps), AckedDeliveryCalls)
        /\ \A i \in DOMAIN Providers :
              i + 1 <= Len(steps) => steps[i + 1].on = Providers[i]
        /\ ppc = "calendar" => prov = Len(steps)
        /\ Len(steps) = Len(Providers) + 2 => ppc = "mark"
        /\ Len(steps) = Len(Providers) + 3 =>
              IF MarkStepRaised THEN ppc = "nack" ELSE ppc = "ack"
        /\ (ppc = "nack" \/ LastCall = "nack") => MarkStepRaised

C20_Witness ==
    /\ SinkRaised
    /\ ~steps[2].ok
    /\ LastCall = "ack"
    /\ steps[3].call = "create_event"
    /\ steps[3].ok
    /\ raw_event.event_id \in labelled[raw_event.source_id]

(***************************************************************************)
(* C21  Consume is restartable.  A pull that opens a new consume()         *)
(* sequence after the sequence before it ran out of events does not raise: *)
(* it yields the head of the backlog when there is one and ends quietly    *)
(* when there is none.  And an event published after the sequence ran out  *)
(* is yielded by the pulls of a later sequence.                            *)
(***************************************************************************)
RanOut == yielded = StopAsyncIteration /\ delivered # <<>>

PublishedAfterRunOut(o) == RanOut /\ InBacklog(o) /\ NumDeliveries(o) = 0

C21_RestartYields ==
    (RanOut /\ op'.name = "consume") =>
        /\ op'.fresh
        /\ IF queue # <<>>
           THEN yielded' = Head(queue) /\ delivered' = Append(delivered, Head(queue))
           ELSE yielded' = StopAsyncIteration /\ UNCHANGED <<queue, processing, delivered>>

C21_ConsumeRestartable ==
    /\ [][C21_RestartYields]_vars
    /\ \A o \in 1..(MaxPublish + 1) : PublishedAfterRunOut(o) ~> (NumDeliveries(o) > 0)

C21_Witness ==
    /\ op.name = "consume" /\ op.hit /\ op.fresh
    /\ Len(delivered) >= 2
    /\ yielded = published[Len(published)]
    /\ NumDeliveries(yielded.oid) = 1

(***************************************************************************)
(* C30  Consume is lazy.  A pull that finds an event removes exactly the   *)
(* head of the backlog and puts exactly that event in flight under its id; *)
(* no other call removes an event from the backlog before it is pulled, so *)
(* an event published while another one is in flight stays in the backlog  *)
(* and is yielded by a later pull of the same sequence.                    *)
(***************************************************************************)
C30_PullTakesHead ==
    (op'.name = "consume" /\ queue # <<>>) =>
        /\ yielded' = Head(queue)
        /\ queue' = Tail(queue)
        /\ processing' = DictSet(processing, Head(queue).event_id, Head(queue))

C30_OnlyPullsRemove == op'.name # "consume" => IsPrefix(queue, queue')

C30_LazyConsume == [][C30_PullTakesHead /\ C30_OnlyPullsRemove]_vars

C30_Witness ==
    /\ op.name = "consume" /\ op.hit /\ ~op.fresh
    /\ Len(delivered) = 2
    /\ InFlight(delivered[1].oid)
    /\ yielded = delivered[2]
    /\ delivered[2].oid > delivered[1].oid

(***************************************************************************)
(* C22  No lost updates.  In every interleaving of the ingestion loops'    *)
(* publishes with the processing loop's consume, ack and nack, every       *)
(* published event is in exactly one place: once in the backlog, or in     *)
(* flight, or acked, or dropped.  So backlog + in-flight + acked + dropped *)
(* is the multiset of the published events, also after a publish made      *)
(* while an event is in flight.                                            *)
(***************************************************************************)
TimesInBacklog(o) == Cardinality({i \in DOMAIN queue : queue[i].oid = o})

TimesInFlight(o) == Cardinality({k \in DOMAIN processing : processing[k].oid = o})

Places(o) ==
    TimesInBacklog(o) + TimesInFlight(o) + (IF o \in acked THEN 1 ELSE 0)
                                         + (IF o \in dropped THEN 1 ELSE 0)

C22_NoLostUpdates ==
    /\ \A o \in Oids : Places(o) = 1 /\ published[o].oid = o
    /\ \A i \in DOMAIN queue : queue[i].oid \in Oids /\ queue[i] = published[queue[i].oid]
    /\ \A k \in DOMAIN processing :
           processing[k].oid \in Oids /\ processing[k] = published[processing[k].oid]
    /\ acked \cup dropped \subseteq Oids

C22_Witness ==
    /\ op.name = "publish"
    /\ ppc \in {"extract", "calendar", "mark"}
    /\ InFlight(raw_event.oid)
    /\ InBacklog(Len(published))

(***************************************************************************)
(* C23  All connectors are connected before any ingestion.  The step that  *)
(* creates an ingestion loop ends with every configured connector          *)
(* connected, and as long as no ingestion loop has been created no         *)
(* connector's fetch_events has been called and nothing has been           *)
(* published.                                                              *)
(***************************************************************************)
NoIngestionLoop == \A c \in Connectors : ipc[c] = "new"

C23_LoopsStartConnected ==
    (NoIngestionLoop /\ ~NoIngestionLoop') => \A d \in Connectors : service'[d]

C23_NothingBeforeLoops ==
    NoIngestionLoop =>
        /\ published = <<>> /\ queue = <<>>
        /\ \A c \in Connectors : cursor[c] = 0 /\ ~RaisedFor("fetch_events", c)

C23_ConnectBeforeIngestion == []C23_NothingBeforeLoops /\ [][C23_LoopsStartConnected]_vars

C23_Witness ==
    /\ running
    /\ \A d \in Connectors : service[d]
    /\ \E c \in Connectors : ipc[c] = "fetch" /\ cursor[c] > 0
    /\ published # <<>>

(***************************************************************************)
(* C24  Unbounded retry.  An event whose extraction raises every time is   *)
(* never acked and never dropped: it is always either in the backlog or in *)
(* flight.  Once its extraction has failed it is delivered again and fails *)
(* again, without end.                                                     *)
(***************************************************************************)
Unextractable(p) == p \in Oids /\ published[p].event_id \in poison

C24_NeverDropped ==
    \A p \in Oids :
        Unextractable(p) => p \notin acked /\ p \notin dropped /\ Places(p) = 1

C24_Delivered(p) == ppc = "extract" /\ raw_event.oid = p /\ InFlight(p)

C24_Requeued(p) == ppc = "for" /\ InBacklog(p) /\ LastCall = "nack"

C24_UnboundedRetry ==
    /\ []C24_NeverDropped
    /\ \A p \in 1..MaxIngest :
           /\ PoisonFailed(p) ~> C24_Delivered(p)
           /\ PoisonFailed(p) ~> C24_Requeued(p)

C24_Witness ==
    \E p \in Oids :
        /\ PoisonFailed(p)
        /\ running
        /\ C24_Delivered(p)
        /\ op.name = "consume"
        /\ queue = <<>>

(***************************************************************************)
(* C25  Queue-level fault recovery.  When the pull from consume() raises,  *)
(* the processing loop goes to its backoff of 1 time unit and nowhere      *)
(* else; when the backoff is over it pulls from consume() again if running *)
(* is true and ends if it is false; and the loop is never ended while      *)
(* running is true.                                                        *)
(***************************************************************************)
C25_ConsumeRaises ==
    Len(faults') > Len(faults) /\ faults'[Len(faults')][1] = "consume"

C25_BacksOff ==
    C25_ConsumeRaises =>
        /\ faults'[Len(faults')] = <<"consume", 1>>
        /\ ppc' = "backoff"
        /\ UNCHANGED <<qvars, running>>

C25_Resumes ==
    (ppc = "backoff" /\ ppc' # "backoff") => ppc' = IF running THEN "for" ELSE "done"

C25_QueueFaultRecovery ==
    /\ [](ppc = "done" => ~running)
    /\ [][C25_BacksOff /\ C25_Resumes]_vars

C25_Witness ==
    /\ RaisedFor("consume", 1)
    /\ running
    /\ ppc = "extract"
    /\ op.name = "consume" /\ op.hit
    /\ InFlight(raw_event.oid)

(***************************************************************************)
(* C26  Gmail idempotency marking.  A message carries the processed label  *)
(* exactly when mark_as_processed returned True for it.  As first stated:  *)
(* for such a message is_processed, called on the connected connector,     *)
(* returns True, and no fetch_events sequence yields it.                   *)
(***************************************************************************)
Marked(c, m) == m \in labelled[c]

C28_NotConnected ==
    ~gmail.connected =>
        /\ gmail.name = "fetch_events" => gmail.raised /\ gmail.events = <<>>
        /\ gmail.name \in {"health_check", "is_processed", "mark_as_processed"} =>
               ~gmail.result /\ ~gmail.raised

C28_HandleAfterCall ==
    /\ (gmail.name = "connect" /\ ~gmail.raised) => service[gmail.on]
    /\ gmail.name = "disconnect" => ~service[gmail.on]
    /\ (gmail.name = "health_check" /\ gmail.connected /\ gmail.api_ok) => gmail.result

C28_HandleChanges ==
    \A c \in Connectors :
        /\ service'[c] # service[c] =>
               /\ gmail'.on = c
               /\ \/ gmail'.name = "connect" /\ ~gmail'.raised /\ service'[c]
                  \/ gmail'.name = "disconnect" /\ ~service'[c]
        /\ (~service[c] /\ gmail'.on = c) => labelled'[c] = labelled[c]

C28_ConnectorLifecycle ==
    /\ [](C28_NotConnected /\ C28_HandleAfterCall)
    /\ [][C28_HandleChanges]_vars

C28_Witness ==
    /\ gmail.name = "fetch_events"
    /\ ~gmail.connected /\ gmail.raised
    /\ labelled[gmail.on] # {}
    /\ ~service[gmail.on]

(***************************************************************************)
(* C27  Extraction output invariants.  A StructuredEvent that extract      *)
(* returns has a non-empty title and, when it has both a start and an end  *)
(* time, start strictly before end; and when the LLM's result has a None   *)
(* or empty title, or a start that is not before its end, extract raises   *)
(* and returns no event.                                                   *)
(***************************************************************************)
Returned == xpc \in {"extracted", "created"}

C27_ReturnedIsValid ==
    Returned =>
        /\ structured_event.title # Nothing
        /\ structured_event.title[1] # ""
        /\ (structured_event.start_time # Nothing /\ structured_event.end_time # Nothing) =>
               structured_event.start_time[1] < structured_event.end_time[1]

C27_Violating ==
    \/ llm_result.title.kind = "none"
    \/ llm_result.title = Entry("str", "")
    \/ /\ llm_result.start_time.kind = "iso"
       /\ llm_result.end_time.kind = "iso"
       /\ llm_result.start_time.v >= llm_result.end_time.v

C27_ExtractionOutput ==
    /\ C27_ReturnedIsValid
    /\ (xpc # "idle" /\ C27_Violating) => ~Returned /\ structured_event = NoEvent
    /\ xpc = "raised" => C27_Violating

C27_Witness ==
    /\ xpc = "extracted"
    /\ structured_event.title = Some("Dentist")
    /\ structured_event.start_time = Some(1)
    /\ structured_event.end_time = Some(2)

(***************************************************************************)
(* C29  StructuredEvent defaults.  When the LLM's result has no alert lead *)
(* time, or None, or one that is not a number, the StructuredEvent has an  *)
(* alert lead time of 15 minutes; and for a StructuredEvent with a start   *)
(* and no end time the Google calendar sink builds a window from the start *)
(* to one hour after it.                                                   *)
(***************************************************************************)
C29_Unspecified == llm_result.alert_before_minutes.kind \in {"absent", "none", "junk"}

C31_PublishStep ==
    op'.name = "publish" =>
        /\ ret'
        /\ Len(published') = Len(published) + 1
        /\ queue' = Append(queue, published'[Len(published')])
        /\ published'[Len(published')].event_id = op'.event_id
        /\ processing' = processing

SameIdTwice(i, j) ==
    /\ i < j /\ i \in Oids /\ j \in Oids
    /\ published[i].event_id = published[j].event_id

\* the event shares its id with another published event
SharesId(o) == o \in Oids /\ \E j \in Oids : SameIdTwice(o, j) \/ SameIdTwice(j, o)

C31_PublishFrame ==
    /\ [][C31_PublishStep]_vars
    /\ \A o \in 1..(MaxPublish + 1) : SharesId(o) ~> (NumDeliveries(o) > 0)

C31_Witness ==
    /\ SameIdTwice(1, 2)
    /\ op.name = "consume" /\ op.hit
    /\ NumDeliveries(1) = 1 /\ NumDeliveries(2) = 1
    /\ yielded = published[2]

(***************************************************************************)
(* C37  Ack and nack only touch in-flight events.  An ack or a nack (with  *)
(* either requeue value) called with the id of an event that is in the     *)
(* backlog, while no event is in flight under that id, returns True and    *)
(* leaves the backlog and the in-flight set as they were; the event is     *)
(* delivered by a later pull.                                              *)
(***************************************************************************)
OnlyQueued(o, id) ==
    /\ o \in Oids /\ published[o].event_id = id
    /\ InBacklog(o)
    /\ id \notin DOMAIN processing

C37_MissStep ==
    (op'.name \in {"ack", "nack"} /\ \E o \in Oids : OnlyQueued(o, op'.event_id)) =>
        /\ ret' /\ ~op'.hit
        /\ queue' = queue
        /\ processing' = processing
        /\ dropped' = dropped /\ acked' = acked

C37_Missed(o) == op.name \in {"ack", "nack"} /\ ~op.hit /\ OnlyQueued(o, op.event_id)

C37_Pulled(o) == op.name = "consume" /\ op.hit /\ yielded.oid = o /\ InFlight(o)

C37_OnlyInFlightTouched ==
    /\ [][C37_MissStep]_vars
    /\ \A o \in 1..(MaxPublish + 1) : C37_Missed(o) ~> C37_Pulled(o)

C37_Witness ==
    \E o \in Oids :
        /\ C37_Missed(o)
        /\ op.name = "nack" /\ ~op.requeue
        /\ queue = <<published[o]>>
        /\ dropped = {}

(***************************************************************************)
(* C38  In-flight id collision.  When an event is pulled while another     *)
(* event with the same id is in flight, the in-flight map keeps the later  *)
(* event only: the earlier one is then neither in the backlog nor in       *)
(* flight, although it was never acked or dropped.  A nack(requeue=True)   *)
(* for the id re-queues the later event only, and the earlier one is never *)
(* in the queue again.                                                     *)
(***************************************************************************)
Collides == queue # <<>> /\ Head(queue).event_id \in DOMAIN processing

C38_CollisionStep ==
    (op'.name = "consume" /\ Collides) =>
        /\ processing'[Head(queue).event_id] = Head(queue)
        /\ DOMAIN processing' = DOMAIN processing
        /\ \A o \in Oids : o = processing[Head(queue).event_id].oid => Places(o)' = 0

Lost(o) == o \in Oids /\ NumDeliveries(o) > 0 /\ Places(o) = 0

C38_LostStaysLost == \A o \in Oids : Lost(o) => Lost(o)'

C38_RequeueOfLater ==
    (op'.name = "nack" /\ op'.requeue /\ op'.hit) =>
        queue' = Append(queue, processing[op'.event_id])

C38_IdCollision == [][C38_CollisionStep /\ C38_LostStaysLost /\ C38_RequeueOfLater]_vars

C38_Witness ==
    /\ Len(published) >= 2
    /\ published[1].event_id = published[2].event_id
    /\ Lost(1)
    /\ op.name = "nack" /\ op.requeue /\ op.hit
    /\ queue = <<published[2]>>
    /\ processing = EmptyDict

(***************************************************************************)
(* C34 Single in-flight event: with the orchestrator's one processing loop *)
(* as the only user of the queue and an event_id on every event, the       *)
(* in-flight map holds at most one event in every reachable state, the one *)
(* the loop is working on, and it is empty whenever the loop is between    *)
(* deliveries (before the next pull, in the busy loop, in the back-off     *)
(* sleep, not started or finished).                                        *)
(***************************************************************************)
BetweenDeliveries == ppc \in {"new", "aborted", "while", "for", "spin", "backoff", "done"}

C34_SingleInFlight ==
    /\ \A i \in DOMAIN published : published[i].event_id # None
    /\ Cardinality(DOMAIN processing) <= 1
    /\ BetweenDeliveries => DOMAIN processing = {}
    /\ ~BetweenDeliveries =>
          /\ raw_event # StopAsyncIteration
          /\ DOMAIN processing = {raw_event.event_id}
          /\ processing[raw_event.event_id] = raw_event

\* a second delivery has begun: an event is in flight after an earlier one
\* was acked
C34_Witness ==
    /\ ppc = "calendar"
    /\ Cardinality(DOMAIN processing) = 1
    /\ acked # {}


(***************************************************************************)
(* C35 Marking failure by exception: when mark_as_processed raises for an  *)
(* event whose extraction and calendar calls have run, the delivery ends   *)
(* in nack with requeue=True and not in ack, which puts the same RawEvent  *)
(* at the tail of the backlog; in the delivery that follows, process_event *)
(* is called again for it and, once it has returned, create_event is       *)
(* called again on every provider.                                         *)
(***************************************************************************)
NumCreateEvents == Cardinality({i \in DOMAIN steps : steps[i].call = "create_event"})

\* the delivery at hand is one in which mark_as_processed raised
C35_MarkRaisedNow ==
    MarkStepRaised =>
        /\ steps[1] = Step("process_event", "", TRUE)
        /\ NumCreateEvents = Len(Providers)
        /\ \A i \in DOMAIN steps : steps[i].call # "ack"
        /\ raw_event.oid \notin acked
        /\ \/ ppc = "nack" /\ LastCall = "mark_as_processed"
           \/ /\ ppc \in {"for", "backoff", "while", "done", "spin"}
              /\ LastCall = "nack"
              /\ steps[Len(steps)].requeue
              /\ InBacklog(raw_event.oid)
              /\ NumRequeues(raw_event.oid) > 0

\* the delivery at hand is a later one of an event for which
\* mark_as_processed raised before
C35_Redelivery(o) ==
    /\ MarkRaised(o)
    /\ ~MarkStepRaised
    /\ raw_event # StopAsyncIteration
    /\ raw_event.oid = o
    /\ steps # <<>>

C35_MarkRaiseRetries ==
    /\ C35_MarkRaisedNow
    /\ \A o \in Oids :
          C35_Redelivery(o) =>
              /\ NumDeliveries(o) >= 2
              /\ delivered[Len(delivered)] = published[o]
              /\ steps[1].call = "process_event"
              /\ steps[1].ok => NumStructured(o) >= 2
              /\ LastCall \in {"_send_notifications", "mark_as_processed", "ack"} =>
                     NumCreateEvents = Len(Providers)

\* the redelivery after the raise has been extracted and sent to the
\* calendars a second time
C35_Witness ==
    \E o \in Oids :
        /\ C35_Redelivery(o)
        /\ NumStructured(o) = 2
        /\ NumCreateEvents = Len(Providers)
        /\ ppc = "mark"


(***************************************************************************)
(* C32 Exactly one outcome per delivery: every event the processing loop   *)
(* pulls gets exactly one call of ack or of nack with requeue=True, as the *)
(* last call of its delivery and before the next event is pulled; it is    *)
(* ack exactly when neither process_event nor mark_as_processed raised     *)
(* (_integrate_calendar and _send_notifications do not raise: a provider's *)
(* exception stays inside _integrate_calendar); nack is never called with  *)
(* requeue=False.                                                          *)
(***************************************************************************)
Outcomes == {i \in DOMAIN steps : steps[i].call \in {"ack", "nack"}}

C32_Finished ==
    (BetweenDeliveries /\ steps # <<>>) =>
        /\ Outcomes = {Len(steps)}
        /\ (LastCall = "ack") <=> (~ExtractionRaised /\ ~MarkStepRaised)
        /\ LastCall = "nack" => steps[Len(steps)].requeue
        /\ LastCall = "ack" => (raw_event.oid \in acked /\ NumAcks(raw_event.oid) = 1)
        /\ LastCall = "nack" => (raw_event.oid \notin acked /\ NumRequeues(raw_event.oid) > 0)

C32_OneOutcomePerDelivery ==
    /\ C32_Finished
    /\ ~BetweenDeliveries => Outcomes = {}
    /\ Len(ackCalls) + Len(requeued) =
           Len(delivered) - (IF BetweenDeliveries THEN 0 ELSE 1)
    /\ op.name = "nack" => op.requeue
    /\ dropped = {}

\* both outcomes have happened: an event was nacked after a raise and a
\* delivery has ended in ack
C32_Witness ==
    /\ BetweenDeliveries
    /\ LastCall = "ack"
    /\ Len(requeued) > 0
    /\ Len(delivered) >= 2


(***************************************************************************)
(* C33 Events without an id are mis-addressed: for a RawEvent whose        *)
(* event_id is None every ack and nack of the processing loop carries the  *)
(* empty string, which is not the key None the event is in flight under:   *)
(* the event is never acked, never re-queued and never dropped, it is      *)
(* delivered at most once, also when its extraction raised, and after its  *)
(* delivery it stays in the in-flight map under key None (until a later    *)
(* event without an id takes that key).                                    *)
(***************************************************************************)
HasNoId(o) == o \in Oids /\ published[o].event_id = None

\* the last delivery of an event without an id
LastNoIdDelivery ==
    LET ds == {i \in DOMAIN delivered : delivered[i].event_id = None}
    IN  IF ds = {} THEN 0 ELSE CHOOSE i \in ds : \A j \in ds : j <= i

C33_NoIdMisaddressed ==
    /\ \A o \in Oids :
          HasNoId(o) =>
              /\ NumDeliveries(o) <= 1
              /\ o \notin acked /\ o \notin dropped /\ NumRequeues(o) = 0
              /\ NumDeliveries(o) = 1 => ~InBacklog(o)
              /\ \A i \in DOMAIN ackCalls : ackCalls[i].oid = o => ackCalls[i].id = ""
    /\ (raw_event # StopAsyncIteration /\ raw_event.event_id = None) =>
          /\ \A i \in DOMAIN steps : steps[i].call \in {"ack", "nack"} => steps[i].on = ""
          /\ processing[None] = raw_event
    /\ "" \notin DOMAIN processing
    /\ LastNoIdDelivery # 0 =>
          /\ None \in DOMAIN processing
          /\ processing[None] = delivered[LastNoIdDelivery]

\* the extraction of an event without an id raised and the loop has nacked:
\* the backlog is empty and the event is still in flight
C33_Witness ==
    /\ raw_event # StopAsyncIteration
    /\ raw_event.event_id = None
    /\ ExtractionRaised
    /\ LastCall = "nack"
    /\ op.name = "nack" /\ ~op.hit /\ op.requeue
    /\ queue = <<>>
    /\ processing[None] = raw_event


(***************************************************************************)
(* C36 Ack does not depend on the marking result: a delivery in which      *)
(* nothing raised ends in ack, and the acked event is gone from the        *)
(* backlog and the in-flight map for good, whether mark_as_processed       *)
(* returned True, returned False (the message is left without the label)   *)
(* or was not called at all; it is not called exactly when no connector is *)
(* registered under the event's source_id.                                 *)
(***************************************************************************)
MarkCalled == \E i \in DOMAIN steps : steps[i].call = "mark_as_processed"

\* what GmailConnector.mark_as_processed returned for an event: True exactly
\* when the message carries the label after the call
MarkResult(event) == Registered(event.source_id) /\ Marked(event.source_id, event.event_id)

C36_AckWhateverTheMark ==
    /\ (BetweenDeliveries /\ steps # <<>> /\ ~ExtractionRaised /\ ~MarkStepRaised) =>
          /\ LastCall = "ack"
          /\ raw_event.oid \in acked
          /\ MarkCalled <=> Registered(raw_event.source_id)
    /\ ppc = "ack" =>
          /\ ~ExtractionRaised /\ ~MarkStepRaised
          /\ LastCall = IF Registered(raw_event.source_id)
                        THEN "mark_as_processed" ELSE "_send_notifications"
    /\ \A i \in DOMAIN marks : Registered(published[marks[i].oid].source_id)
    /\ \A o \in acked : ~InBacklog(o) /\ ~InFlight(o)

\* one event was acked without a mark_as_processed call, another after a
\* mark_as_processed that returned False
C36_Witness ==
    \E o1, o2 \in acked :
        /\ ~Registered(published[o1].source_id)
        /\ NumMarks(o1) = 0
        /\ NumMarks(o2) = 1
        /\ ~MarkResult(published[o2])
        /\ NumAcks(o1) = 1 /\ NumAcks(o2) = 1


====
